---- MODULE Spec2Model ----
(***************************************************************************)
(* Model of okada_los_components.ipynb: the notebook computes the surface  *)
(* displacement of a rectangular fault with the Okada solver on a grid and *)
(* projects it on a satellite line of sight.                               *)
(*                                                                         *)
(* Numbers.  The notebook computes in binary floating point.  The model    *)
(* computes in fixed point: angles are whole degrees, sines and cosines    *)
(* are integers in units of 1/Scale, lengths are whole metres and          *)
(* displacements are integers in units of 1/Scale metre.  Every product    *)
(* with a sine is rounded to the nearest unit (RDiv), so an identity that  *)
(* holds "to floating-point tolerance" in the notebook is stated here up   *)
(* to a few rounding units.                                                *)
(*                                                                         *)
(* Notebook.  Each code cell is one action (the grid cell is a set-up      *)
(* action and one action per loop iteration).  The kernel's namespace      *)
(* outlives an exception: a cell that raises leaves the names it had       *)
(* already bound as they are, and the cells after it can still be run.     *)
(***************************************************************************)
EXTENDS Integers, Sequences, FiniteSets

(* ------------------------------------------------------------ bounds --- *)
\* n = (101, 101) in the notebook; the model runs the same loop on a small grid.
NX == 2
NY == 2
\* Number of workers of the parallel evaluation the specification speaks of.
NW == 2

(* ------------------------------------------------- fixed-point numbers --- *)
Scale == 100 * 100

Abs(a) == IF a < 0 THEN -a ELSE a

\* a / b rounded to the nearest integer (floating-point division, to one unit).
RDiv(a, b) ==
    IF b > 0 THEN (2 * a + b) \div (2 * b)
             ELSE (2 * (-a) + (-b)) \div (2 * (-b))

\* round(Scale * sin(d degrees)) for d = 0 .. 90.
SinTable ==
    << 0, 175, 349, 523, 698, 872, 1045, 1219, 1392, 1564, 1736, 1908, 2079, 2250,
       2419, 2588, 2756, 2924, 3090, 3256, 3420, 3584, 3746, 3907, 4067, 4226, 4384,
       4540, 4695, 4848, 5000, 5150, 5299, 5446, 5592, 5736, 5878, 6018, 6157, 6293,
       6428, 6561, 6691, 6820, 6947, 7071, 7193, 7314, 7431, 7547, 7660, 7771, 7880,
       7986, 8090, 8192, 8290, 8387, 8480, 8572, 8660, 8746, 8829, 8910, 8988, 9063,
       9135, 9205, 9272, 9336, 9397, 9455, 9511, 9563, 9613, 9659, 9703, 9744, 9781,
       9816, 9848, 9877, 9903, 9925, 9945, 9962, 9976, 9986, 9994, 9998, 10000 >>

\* sin(radians(d)) in units of 1/Scale, d any whole number of degrees.
SinDeg(d) ==
    LET m == d % 360
    IN  IF m <= 90 THEN SinTable[m + 1]
        ELSE IF m <= 180 THEN SinTable[180 - m + 1]
        ELSE IF m <= 270 THEN -SinTable[m - 180 + 1]
        ELSE -SinTable[360 - m + 1]

\* cos(radians(d)) in units of 1/Scale.
CosDeg(d) == SinDeg(d + 90)

(* ------------------------------------------------- program constants --- *)
cd_depth == 6000
xs == 0
ys == 0
GridMin == -25000
GridMax == 25000

\* linspace(GridMin, GridMax, n)[k], k = 0 .. n-1, to the nearest metre.
Linspace(n, k) ==
    IF n = 1 THEN GridMin
    ELSE GridMin + RDiv(k * (GridMax - GridMin), n - 1)

x(i) == Linspace(NX, i)
y(j) == Linspace(NY, j)

Cells == (0 .. NX - 1) \X (0 .. NY - 1)

\* zeros((n[0], n[1]))
Zeros == [c \in Cells |-> 0]

(* ------------------------------------------ the cells' computations --- *)
\* tan(radians(dip)) == 0.0 exactly, so that cd_depth / tan(...) raises
\* ZeroDivisionError.  Among the dips the model draws (DipSet, no multiple of
\* 180 but 0) the float tangent is zero only at 0: tan(radians(90)) is a large
\* finite number and the division gives a value near 0.
TanIsZero(d) == d = 0

\* rc = cd_depth / tan(radians(dip)), for a dip with SinDeg(dip) # 0.
RadialDistance(d) == RDiv(cd_depth * CosDeg(d), SinDeg(d))

CentroidBuggy(st, d) ==
    LET rc == RadialDistance(d)
    IN  << xs + RDiv(rc * SinDeg(st - 90), Scale),
           ys + RDiv(rc * CosDeg(st - 90), Scale) >>

\* rcx = rc*sin(radians(strike+90)); rcy = rc*cos(radians(strike+90));
\* xc = xs + rcx; yc = ys + rcy
Centroid(st, d) ==
    LET rc == RadialDistance(d)
    IN  << xs + RDiv(rc * SinDeg(st + 90), Scale),
           ys + RDiv(rc * CosDeg(st + 90), Scale) >>

SlipComponentsBuggy(sl, rk) ==
    << RDiv(sl * CosDeg(rk), Scale), SinDeg(rk) >>

\* ss = slip*cos(radians(rake)); ds = slip*sin(radians(rake))
SlipComponents(sl, rk) ==
    << RDiv(sl * CosDeg(rk), Scale), RDiv(sl * SinDeg(rk), Scale) >>

\* R = [[cos(strike-90), -sin(strike-90)], [sin(strike-90), cos(strike-90)]]
RotationMatrix(st) ==
    << << CosDeg(st - 90), -SinDeg(st - 90) >>,
       << SinDeg(st - 90), CosDeg(st - 90) >> >>

\* R.dot(P) for a 2-vector P.
Dot(M, p) ==
    << RDiv(M[1][1] * p[1] + M[1][2] * p[2], Scale),
       RDiv(M[2][1] * p[1] + M[2][2] * p[2], Scale) >>

\* P = [[x[i]-xc], [y[j]-yc]]
ObsP(i, j, c) == << x(i) - c[1], y(j) - c[2] >>

\* UX[i,j] = u[0]*sin(strike) - u[1]*cos(strike)
\* UY[i,j] = u[0]*cos(strike) - u[1]*sin(strike)
\* UZ[i,j] = u[2]
BackRotate(uu, st) ==
    << RDiv(uu[1] * SinDeg(st) - uu[2] * CosDeg(st), Scale),
       RDiv(uu[1] * CosDeg(st) - uu[2] * SinDeg(st), Scale),
       uu[3] >>

PVecBuggy(th, ph) ==
    << RDiv(SinDeg(ph) * SinDeg(th), Scale),
       -CosDeg(ph),
       -CosDeg(th) >>

\* p_vec = [sin(phi)*sin(theta), -cos(phi)*sin(theta), -cos(theta)]
PVec(th, ph) ==
    << RDiv(SinDeg(ph) * SinDeg(th), Scale),
       RDiv(-CosDeg(ph) * SinDeg(th), Scale),
       -CosDeg(th) >>

\* np.multiply(U, p): every element of the array times the scalar p.
Multiply(U, p) == [c \in DOMAIN U |-> RDiv(U[c] * p, Scale)]

\* A + B + C for arrays of one shape.
Add3(A, B, C) == [c \in DOMAIN A |-> A[c] + B[c] + C[c]]

LineOfSightBuggy(ux, uy, uz, p) ==
    Add3(Multiply(ux, p[1]), Multiply(uy, p[1]), Multiply(uz, p[3]))

\* ULOS_X = np.multiply(UX, p_vec[0]); ULOS_Y = ...; ULOS_Z = ...
\* ULOS = ULOS_X + ULOS_Y + ULOS_Z
LineOfSight(ux, uy, uz, p) ==
    Add3(Multiply(ux, p[1]), Multiply(uy, p[2]), Multiply(uz, p[3]))

(* ------------------------------------------------ the external solver --- *)
(* dc3dwrapper is a library routine outside the notebook.  The model keeps *)
(* what the notebook relies on: it is a deterministic function of its      *)
(* arguments and returns a status (0 is success) and a displacement.  The  *)
(* record g (the variable green) picks one such function from a family:    *)
(* g.lin scales a part that is linear in the slip vector and varies with   *)
(* the observation point, g.off is a part that does not depend on the      *)
(* slip, and g.bad is the set of observation points the solver rejects.    *)
(***************************************************************************)
GreenWeight(q) == 1 + (((q[1] \div 1000) + 3 * (q[2] \div 1000)) % 7)

DC3D(g, q, s, d) ==
    LET w == GreenWeight(q)
    IN  [ success |-> IF q \in g.bad THEN 1 ELSE 0,
          u |-> << (g.lin * s * w) \div 8 + g.off[1],
                   (g.lin * d * w) \div 8 + g.off[2],
                   (g.lin * (s - d) * w) \div 16 + g.off[3] >> ]

(* -------------------------------------------------------------- state --- *)
VARIABLES
    strike, dip, rake, slip,  \* fault parameters (degrees; slip in 1/Scale m)
    theta, phi,               \* incidence and pointing azimuth (degrees)
    green,                    \* the solver: see DC3D
    pc,                       \* the next cell of the notebook to run
    names,                    \* the names bound in the kernel's namespace
    raised,                   \* <<cell, exception>> for every cell that raised
    xc, yc, ss, ds, R,        \* geometry normalization
    i, j,                     \* loop indices of the grid cell
    UX, UY, UZ,               \* the displacement field
    calls,                    \* number of dc3dwrapper calls made
    writes,                   \* per grid cell, number of assignments to it
    p_vec, ULOS,              \* pointing vector and line-of-sight field
    wpc, wi, wj,              \* workers: position in the loop body, indices
    slot, tmp,                \* workers: where each keeps P, Q, success, u
    rt                        \* round trip of the two rotations

inputs == << strike, dip, rake, slip, theta, phi, green >>
geometry == << xc, yc, ss, ds, R >>
field == << UX, UY, UZ >>
loop == << i, j, calls, writes >>
los == << p_vec, ULOS >>
workers == << wpc, wi, wj, slot, tmp >>
vars == << inputs, pc, names, raised, geometry, field, loop, los, workers, rt >>

(* ------------------------------------------------------ input domains --- *)
\* The notebook sets strike=1, dip=85, rake=-1, slip=2, theta=39, phi=-260
\* (phi=-100 is its commented-out alternative); the others exercise the
\* claims' cases.
StrikeSet == {1, 45, 90}
DipSet == {0, 85, 90, 120}
RakeSet == {-1, 90}
SlipSet == {-Scale, 0, 2 * Scale}
LookSet == {<<39, -260>>, <<39, -100>>}

\* Q = R.dot(P) of grid point c for a fault of strike st and centroid ctr.
ObsQ(c, st, ctr) == Dot(RotationMatrix(st), ObsP(c[1], c[2], ctr))

\* The solvers the model draws from: the zero solver, a constant field, a
\* field linear in the slip, their sum; each rejecting no point or one
\* point of the grid.
GreenSet(st, d) ==
    { [lin |-> l, off |-> o, bad |-> b] :
        l \in {0, 1},
        o \in { <<0, 0, 0>>, <<Scale, 0, 0>> },
        b \in {{}} \cup (IF TanIsZero(d) THEN {}
                         ELSE { {ObsQ(c, st, Centroid(st, d))} : c \in Cells }) }

NoTmp == [P |-> <<0, 0>>, Q |-> <<0, 0>>, success |-> 0, u |-> <<0, 0, 0>>]

\* The part of the state a specification does not use.
IdleWorkers ==
    /\ wpc = [w \in 0 .. NW - 1 |-> "done"]
    /\ wi = [w \in 0 .. NW - 1 |-> 0]
    /\ wj = [w \in 0 .. NW - 1 |-> 0]
    /\ slot = [w \in 0 .. NW - 1 |-> w]
    /\ tmp = [k \in 0 .. NW - 1 |-> NoTmp]

IdleRoundTrip == rt = [stage |-> "idle", v |-> <<0, 0>>, q |-> <<0, 0>>, w |-> <<0, 0>>]

FreshKernel ==
    /\ names = {}
    /\ raised = {}
    /\ xc = 0 /\ yc = 0 /\ ss = 0 /\ ds = 0
    /\ R = << <<0, 0>>, <<0, 0>> >>
    /\ i = 0 /\ j = 0
    /\ UX = Zeros /\ UY = Zeros /\ UZ = Zeros
    /\ calls = 0
    /\ writes = Zeros
    /\ p_vec = <<0, 0, 0>>
    /\ ULOS = Zeros

\* The notebook with its parameter cells run and no computation yet.
Init ==
    /\ strike \in StrikeSet
    /\ dip \in DipSet
    /\ rake \in RakeSet
    /\ slip \in SlipSet
    /\ \E l \in LookSet : theta = l[1] /\ phi = l[2]
    /\ green \in GreenSet(strike, dip)
    /\ pc = "centroid"
    /\ FreshKernel
    /\ IdleWorkers
    /\ IdleRoundTrip

(* --------------------------------------------------- the notebook cells --- *)
\* The exceptions the cells can raise.
Exceptions == {"ZeroDivisionError", "NameError", "AssertionError"}

Raise(cell, exc) == raised' = raised \cup {<<cell, exc>>}

\* Cell "calculate the centroid coordinates".
CentroidCell ==
    /\ pc = "centroid"
    /\ pc' = "slip"
    /\ IF TanIsZero(dip)
       THEN /\ Raise("centroid", "ZeroDivisionError")
            /\ UNCHANGED << names, xc, yc >>
       ELSE /\ xc' = Centroid(strike, dip)[1]
            /\ yc' = Centroid(strike, dip)[2]
            /\ names' = names \cup {"xc", "yc"}
            /\ UNCHANGED raised
    /\ UNCHANGED << inputs, ss, ds, R, field, loop, los, workers, rt >>

\* Cell "convert slip and rake to strike-slip and dip-slip".
SlipCell ==
    /\ pc = "slip"
    /\ pc' = "rotation"
    /\ ss' = SlipComponents(slip, rake)[1]
    /\ ds' = SlipComponents(slip, rake)[2]
    /\ names' = names \cup {"ss", "ds"}
    /\ UNCHANGED << inputs, raised, xc, yc, R, field, loop, los, workers, rt >>

\* Cell "make a rotation matrix to account for strike".
RotationCell ==
    /\ pc = "rotation"
    /\ pc' = "grid"
    /\ R' = RotationMatrix(strike)
    /\ names' = names \cup {"R"}
    /\ UNCHANGED << inputs, raised, xc, yc, ss, ds, field, loop, los, workers, rt >>

\* Grid cell, up to the loop: n, x, y and the three arrays of zeros.
GridSetup ==
    /\ pc = "grid"
    /\ pc' = "loop"
    /\ UX' = Zeros /\ UY' = Zeros /\ UZ' = Zeros
    /\ i' = 0 /\ j' = 0
    /\ names' = names \cup {"UX", "UY", "UZ"}
    /\ UNCHANGED << inputs, raised, geometry, calls, writes, los, workers, rt >>

\* The loop body for grid point (a, b): the solver's status and the three
\* values the body stores in cell (a, b).
CellResult(a, b) ==
    LET r == DC3D(green, Dot(R, ObsP(a, b, <<xc, yc>>)), ss, ds)
    IN  [success |-> r.success, val |-> BackRotate(r.u, strike)]

AssertOKBuggy(success) == TRUE

\* assert(success == 0)
AssertOK(success) == success = 0

NextIndexBuggy(a, b) == IF b + 2 < NY THEN <<a, b + 2>> ELSE <<a + 1, 0>>

\* for i in range(n[0]): for j in range(n[1]): the indices after (a, b).
NextIndex(a, b) == IF b + 1 < NY THEN <<a, b + 1>> ELSE <<a + 1, 0>>

\* One iteration of the nested loop of the grid cell.
GridIteration ==
    /\ pc = "loop"
    /\ IF "xc" \notin names
       THEN \* P = np.array([[x[i]-xc], ...]) reads an unbound name
            /\ Raise("grid", "NameError")
            /\ pc' = "pvec"
            /\ UNCHANGED << field, loop >>
       ELSE LET r == CellResult(i, j)
                nxt == NextIndex(i, j)
            IN  /\ calls' = calls + 1
                /\ IF AssertOK(r.success)
                   THEN /\ UX' = [UX EXCEPT ![<<i, j>>] = r.val[1]]
                        /\ UY' = [UY EXCEPT ![<<i, j>>] = r.val[2]]
                        /\ UZ' = [UZ EXCEPT ![<<i, j>>] = r.val[3]]
                        /\ writes' = [writes EXCEPT ![<<i, j>>] = @ + 1]
                        /\ i' = nxt[1] /\ j' = nxt[2]
                        /\ pc' = IF nxt[1] < NX THEN "loop" ELSE "pvec"
                        /\ UNCHANGED raised
                   ELSE /\ Raise("grid", "AssertionError")
                        /\ pc' = "pvec"
                        /\ UNCHANGED << field, i, j, writes >>
    /\ UNCHANGED << inputs, names, geometry, los, workers, rt >>

\* Cell "theta = 39 ... p_vec = [...]".
PointingVectorCell ==
    /\ pc = "pvec"
    /\ pc' = "los"
    /\ p_vec' = PVec(theta, phi)
    /\ names' = names \cup {"p_vec"}
    /\ UNCHANGED << inputs, raised, geometry, field, loop, ULOS, workers, rt >>

\* Cell "let's scale the three displacement components".
LineOfSightCell ==
    /\ pc = "los"
    /\ pc' = "end"
    /\ IF {"UX", "UY", "UZ", "p_vec"} \subseteq names
       THEN /\ ULOS' = LineOfSight(UX, UY, UZ, p_vec)
            /\ names' = names \cup {"ULOS"}
            /\ UNCHANGED raised
       ELSE /\ Raise("los", "NameError")
            /\ UNCHANGED << ULOS, names >>
    /\ UNCHANGED << inputs, geometry, field, loop, p_vec, workers, rt >>

Next ==
    \/ CentroidCell
    \/ SlipCell
    \/ RotationCell
    \/ GridSetup
    \/ GridIteration
    \/ PointingVectorCell
    \/ LineOfSightCell

Spec == Init /\ [][Next]_vars

(* ------------------------------------------- claims on the notebook --- *)
GridFailed == <<"grid", "AssertionError">> \in raised

GridDone ==
    /\ pc \in {"pvec", "los", "end"}
    /\ <<"grid", "AssertionError">> \notin raised
    /\ <<"grid", "NameError">> \notin raised

\* The solver rejects the grid point the loop is at.
SolverFailsHere ==
    /\ pc = "loop"
    /\ "xc" \in names
    /\ CellResult(i, j).success # 0

\* C1: when the solver reports non-success at a grid point, that iteration
\* raises AssertionError, leaves the loop and writes no cell of UX, UY, UZ;
\* and once the grid cell has failed, no further solver call is made and no
\* cell of UX, UY, UZ is written any more.
FailFast ==
    [][ /\ SolverFailsHere =>
            /\ pc' # "loop"
            /\ <<"grid", "AssertionError">> \in raised'
            /\ field' = field
        /\ GridFailed =>
            /\ GridFailed'
            /\ calls' = calls
            /\ field' = field
            /\ writes' = writes ]_vars

\* C1 witness: the solver failed after some cells were written and before
\* the last grid point, and the later cells of the notebook have run.
FailFastWitness ==
    /\ GridFailed
    /\ pc = "end"
    /\ calls >= 2
    /\ calls < NX * NY
    /\ \E c \in Cells : writes[c] = 1
    /\ \E c \in Cells : writes[c] = 0

\* Some cells hold computed values and the others their initial zeros.
PartiallyPopulated ==
    /\ \E c \in Cells : writes[c] = 1
    /\ \E c \in Cells : writes[c] = 0

\* C2: after a solver failure no partially populated displacement field is
\* bound in the namespace the later cells read, and no line-of-sight field
\* has been computed.
NoPartialResults ==
    GridFailed =>
        /\ ~(PartiallyPopulated /\ {"UX", "UY", "UZ"} \subseteq names)
        /\ "ULOS" \notin names

\* The data model's invariant on FaultParameters.
ValidGeometry == dip > 0 /\ dip <= 90 /\ slip >= 0

\* C4: for fault parameters violating the invariant, and at dips 0 and 90,
\* the centroid cell raises and the solver is never called.
InvalidGeometryFailsFast ==
    (~ValidGeometry \/ dip \in {0, 90}) =>
        /\ calls = 0
        /\ pc # "centroid" => \E e \in Exceptions : <<"centroid", e>> \in raised

\* The displacement field is (1, 0, 0) everywhere.
UnitEastField ==
    \A c \in Cells : UX[c] = Scale /\ UY[c] = 0 /\ UZ[c] = 0

\* C5: the line-of-sight field has the shape of the displacement field and
\* in every cell equals UX*px + UY*py + UZ*pz, to the rounding of the three
\* products; for the field (1, 0, 0) it is px everywhere.
LOSIsDotProduct ==
    "ULOS" \in names =>
        /\ DOMAIN ULOS = DOMAIN UX
        /\ \A c \in Cells :
              Abs(Scale * ULOS[c]
                    - (UX[c] * p_vec[1] + UY[c] * p_vec[2] + UZ[c] * p_vec[3]))
                <= 2 * Scale
        /\ UnitEastField => \A c \in Cells : ULOS[c] = p_vec[1]

\* C5 witness: a line-of-sight field computed from the field (1, 0, 0).
LOSUnitWitness ==
    /\ "ULOS" \in names
    /\ UnitEastField
    /\ calls = NX * NY
    /\ p_vec[1] # 0
    /\ p_vec[1] # p_vec[2]

\* The solver returns zero displacement for a zero slip vector at every
\* point of the grid.
ZeroOnZero ==
    \A c \in Cells :
        DC3D(green, ObsQ(c, strike, <<xc, yc>>), 0, 0).u = <<0, 0, 0>>

\* C6: with slip = 0 the strike-slip and dip-slip components are zero and,
\* for a solver that returns zero for a zero slip vector, every cell of UX,
\* UY, UZ is zero.
ZeroSlipZeroField ==
    slip = 0 =>
        /\ "ss" \in names => ss = 0 /\ ds = 0
        /\ ZeroOnZero => \A c \in Cells : UX[c] = 0 /\ UY[c] = 0 /\ UZ[c] = 0

\* C6 witness: a complete grid evaluation with zero slip and a solver that is
\* linear in the slip (non-zero for the non-zero slips).
ZeroSlipWitness ==
    /\ slip = 0
    /\ ZeroOnZero
    /\ green.lin # 0
    /\ rake = -1
    /\ GridDone
    /\ \A c \in Cells : writes[c] = 1

\* The end-to-end scenario's geometry, after the centroid cell.
ScenarioCentroid == strike = 1 /\ dip = 85 /\ "xc" \in names

\* C8 as stated: the scenario's centroid is about (-524.94, 9.16).
CentroidAsClaimed ==
    ScenarioCentroid => Abs(xc - (-525)) <= 1 /\ Abs(yc - 9) <= 1

\* C8 amended: the scenario's centroid is about (+524.9, -9.2): a positive x
\* offset and a negative y offset from the reference point.
CentroidOfScenario ==
    ScenarioCentroid =>
        /\ Abs(xc - 525) <= 1 /\ Abs(yc - (-9)) <= 1
        /\ xc > xs /\ yc < ys

\* C8 witness: the centroid cell has run on the scenario's parameters.
CentroidWitness == ScenarioCentroid /\ pc = "slip" /\ raised = {}

\* C10: no cell is ever written twice, and when the grid cell ends without a
\* failure every cell was written exactly once, holds the result for its own
\* observation point, and the solver was called NX*NY times.
WriteOnce ==
    /\ \A c \in Cells : writes[c] <= 1
    /\ GridDone =>
        /\ calls = NX * NY
        /\ \A c \in Cells :
              /\ writes[c] = 1
              /\ <<UX[c], UY[c], UZ[c]>> = CellResult(c[1], c[2]).val

\* C10 witness: a complete evaluation whose cells hold distinct values.
WriteOnceWitness ==
    /\ GridDone
    /\ calls = NX * NY
    /\ \A c, e \in Cells : c # e => UX[c] # UX[e]

(* ------------------------------------------------ the pointing vector --- *)
ThetaSet == 0 .. 90
PhiSet == { 5 * k : k \in -72 .. 72 } \cup {-260, -100, 1, 39}

\* A kernel in which only the pointing-vector cell is run, on any angles.
InitPVec ==
    /\ strike = 1 /\ dip = 85 /\ rake = -1 /\ slip = 2 * Scale
    /\ theta \in ThetaSet
    /\ phi \in PhiSet
    /\ green = [lin |-> 0, off |-> <<0, 0, 0>>, bad |-> {}]
    /\ pc = "pvec"
    /\ FreshKernel
    /\ IdleWorkers
    /\ IdleRoundTrip

NextPVec == PointingVectorCell

SpecPVec == InitPVec /\ [][NextPVec]_vars

\* Rounding of the three components: 4/Scale of the squared norm.
NormTol == 4 * Scale

\* C9: the pointing vector has unit norm, px^2 + py^2 + pz^2 = 1, for every
\* incidence angle and pointing azimuth (to the rounding of its components).
UnitNorm ==
    "p_vec" \in names =>
        Abs(p_vec[1] * p_vec[1] + p_vec[2] * p_vec[2] + p_vec[3] * p_vec[3]
              - Scale * Scale) <= NormTol

\* C9 witness: the notebook's angles, with all three components non-zero.
UnitNormWitness ==
    /\ "p_vec" \in names
    /\ theta = 39 /\ phi = -260
    /\ p_vec[1] > 6000 /\ p_vec[2] > 1000 /\ p_vec[3] < -7000

(* ----------------------------------------------- the rotations' round trip --- *)
RoundTripStrikes == {0, 1, 45, 90, 135, 180, 270}
RoundTripVectors == {-Scale, 0, Scale} \X {-Scale, 0, Scale}

\* A horizontal vector v, to be rotated by R and rotated back by the
\* formulas the loop body applies to the solver's output.
InitRoundTrip ==
    /\ strike \in RoundTripStrikes
    /\ dip = 85 /\ rake = -1 /\ slip = 2 * Scale
    /\ theta = 39 /\ phi = -260
    /\ green = [lin |-> 0, off |-> <<0, 0, 0>>, bad |-> {}]
    /\ pc = "roundtrip"
    /\ FreshKernel
    /\ IdleWorkers
    /\ \E v \in RoundTripVectors :
          rt = [stage |-> "start", v |-> v, q |-> <<0, 0>>, w |-> <<0, 0>>]

\* Q = R.dot(P), with R of the rotation cell.
RotateForward ==
    /\ rt.stage = "start"
    /\ rt' = [rt EXCEPT !.stage = "forward",
                        !.q = Dot(RotationMatrix(strike), rt.v)]
    /\ UNCHANGED << inputs, pc, names, raised, geometry, field, loop, los, workers >>

\* UX, UY of the loop body, applied to the rotated pair.
RotateBack ==
    /\ rt.stage = "forward"
    /\ LET b == BackRotate(<<rt.q[1], rt.q[2], 0>>, strike)
       IN  rt' = [rt EXCEPT !.stage = "back", !.w = <<b[1], b[2]>>]
    /\ UNCHANGED << inputs, pc, names, raised, geometry, field, loop, los, workers >>

NextRoundTrip == RotateForward \/ RotateBack

SpecRoundTrip == InitRoundTrip /\ [][NextRoundTrip]_vars

\* C3: rotating a horizontal vector by R and then by the back-rotation
\* returns the vector (to two rounding units), for every strike.
RoundTripIdentity ==
    rt.stage = "back" =>
        /\ Abs(rt.w[1] - rt.v[1]) <= 2
        /\ Abs(rt.w[2] - rt.v[2]) <= 2

(* -------------------------------------------------- parallel evaluation --- *)
(* The grid loop run by NW workers, worker w owning the rows i with        *)
(* i % NW = w, interleaved arbitrarily.  Each worker runs the loop body as *)
(* written, in two steps: the statements up to the solver call, which bind *)
(* P, Q, success, u, and the assert and the three stores, which read       *)
(* success and u.  slot[w] is where worker w keeps these temporaries: in   *)
(* the notebook they are names of the one kernel namespace (slot 0 for     *)
(* every worker); a worker that runs the body in a function or a process   *)
(* of its own has its own (slot w).                                        *)
(***************************************************************************)
Workers == 0 .. NW - 1

SharedSlots == [w \in Workers |-> 0]
PrivateSlots == [w \in Workers |-> w]

\* The solvers of the parallel runs: linear in the slip, so that every grid
\* point has its own result, accepting every point or all but the last.
WorkerGreens ==
    { [lin |-> 1, off |-> <<0, 0, 0>>, bad |-> b] :
        b \in { {}, {ObsQ(<<NX - 1, NY - 1>>, 1, Centroid(1, 85))} } }

\* The kernel after the geometry cells and the grid set-up, at the loop, on
\* the notebook's fault parameters.  The shared placement of the temporaries
\* is drawn for the solver that accepts every point.
InitWorkers ==
    /\ strike = 1 /\ dip = 85 /\ rake = -1 /\ slip = 2 * Scale
    /\ theta = 39 /\ phi = -260
    /\ green \in WorkerGreens
    /\ pc = "workers"
    /\ names = {"xc", "yc", "ss", "ds", "R", "UX", "UY", "UZ"}
    /\ raised = {}
    /\ xc = Centroid(strike, dip)[1] /\ yc = Centroid(strike, dip)[2]
    /\ ss = SlipComponents(slip, rake)[1] /\ ds = SlipComponents(slip, rake)[2]
    /\ R = RotationMatrix(strike)
    /\ i = 0 /\ j = 0
    /\ UX = Zeros /\ UY = Zeros /\ UZ = Zeros
    /\ calls = 0
    /\ writes = Zeros
    /\ p_vec = <<0, 0, 0>>
    /\ ULOS = Zeros
    /\ wpc = [w \in Workers |-> IF w < NX THEN "solve" ELSE "done"]
    /\ wi = [w \in Workers |-> w]
    /\ wj = [w \in Workers |-> 0]
    /\ slot \in {PrivateSlots} \cup (IF green.bad = {} THEN {SharedSlots} ELSE {})
    /\ tmp = [k \in Workers |-> NoTmp]
    /\ IdleRoundTrip

\* Lines "P = ...; Q = R.dot(P); success, u, grad_u = dc3dwrapper(...)".
WSolve(w) ==
    /\ pc = "workers"
    /\ wpc[w] = "solve"
    /\ LET pp == ObsP(wi[w], wj[w], <<xc, yc>>)
           qq == Dot(R, pp)
           r == DC3D(green, qq, ss, ds)
       IN  tmp' = [tmp EXCEPT ![slot[w]] =
                      [P |-> pp, Q |-> qq, success |-> r.success, u |-> r.u]]
    /\ calls' = calls + 1
    /\ wpc' = [wpc EXCEPT ![w] = "store"]
    /\ UNCHANGED << inputs, pc, names, raised, geometry, field, i, j, writes,
                    los, wi, wj, slot, rt >>

WorkerNextBuggy(a, b) == <<a + NW, 0>>

\* The indices after (a, b) in a worker's share of the rows.
WorkerNext(a, b) == IF b + 1 < NY THEN <<a, b + 1>> ELSE <<a + NW, 0>>

\* Lines "assert(success == 0); UX[i, j] = ...; UY[i, j] = ...; UZ[i, j] = ...".
WStore(w) ==
    /\ pc = "workers"
    /\ wpc[w] = "store"
    /\ LET t == tmp[slot[w]]
           c == <<wi[w], wj[w]>>
           val == BackRotate(t.u, strike)
           nxt == WorkerNext(wi[w], wj[w])
       IN  IF AssertOK(t.success)
           THEN /\ UX' = [UX EXCEPT ![c] = val[1]]
                /\ UY' = [UY EXCEPT ![c] = val[2]]
                /\ UZ' = [UZ EXCEPT ![c] = val[3]]
                /\ writes' = [writes EXCEPT ![c] = @ + 1]
                /\ wi' = [wi EXCEPT ![w] = nxt[1]]
                /\ wj' = [wj EXCEPT ![w] = nxt[2]]
                /\ wpc' = [wpc EXCEPT ![w] = IF nxt[1] < NX THEN "solve" ELSE "done"]
                /\ UNCHANGED raised
           ELSE /\ Raise("grid", "AssertionError")
                /\ wpc' = [wpc EXCEPT ![w] = "error"]
                /\ UNCHANGED << field, writes, wi, wj >>
    /\ UNCHANGED << inputs, pc, names, geometry, i, j, calls, los, slot, tmp, rt >>

NextWorkers == \E w \in Workers : WSolve(w) \/ WStore(w)

SpecWorkers == InitWorkers /\ [][NextWorkers]_vars

AllDone == pc = "workers" /\ \A w \in Workers : wpc[w] = "done"

EachCellItsOwnResult ==
    \A c \in Cells :
        /\ writes[c] = 1
        /\ <<UX[c], UY[c], UZ[c]>> = CellResult(c[1], c[2]).val

PrivateTemporaries == \A v, w \in Workers : v # w => slot[v] # slot[w]

====
